---- MODULE Spec2Model ----
(***************************************************************************)
(* Model of backend/recipes/base.py: the Recipe step-advancement state     *)
(* machine (start, stop, getStatus, updateStatus, selectOption, runStep)   *)
(* together with the task runner (recipes.celery) and the hardware         *)
(* commands it drives.                                                     *)
(*                                                                         *)
(* Python values are represented as follows.                               *)
(*   - a dict with optional keys is a record that carries every field and  *)
(*     a set `has` of the keys that are present ('k' in d  <=>  k \in has) *)
(*   - plan['steps'] is a Python list; a TLA+ sequence holds it, element i *)
(*     of the list being element i+1 of the sequence (see PyIndex)         *)
(*   - the empty string stored in Recipe.time is EmptyTime                 *)
(*   - an exception leaving a handler is recorded in ret.raised; the       *)
(*     assignments made before the raise are kept, as in Python            *)
(*   - temperatures are integers, in tenths of a degree                    *)
(*                                                                         *)
(* Three specifications are given: Spec, the recipe under every sequence   *)
(* of calls with the worker running beside it; SpecRoutine, the control    *)
(* routines called on their own; SpecLive, the recipe under a poller, with *)
(* fairness.                                                               *)
(***************************************************************************)
EXTENDS Integers, Sequences, FiniteSets, TLC

VARIABLES
    plan,        \* self.plan['steps'], fixed at construction
    step,        \* self.step
    message,     \* self.message
    status,      \* self.status
    options,     \* self.options
    icon,        \* self.icon
    time,        \* self.time
    currentTask, \* task runner: the routine last dispatched, or NoTask
    taskState,   \* task runner: "none", "queued", "running", "complete"
                 \* or "failed" (the routine raised)
    elapsed,     \* worker: half-second sleeps since the routine's start
    asleep,      \* worker: maintain is inside the hardware.sleep of a pass
    heater,      \* hardware: last heater command ("on"/"off")
    cooler,      \* hardware: last cooler command ("on"/"off")
    temp,        \* hardware: the temperature getTemp() returns, in tenths
    sensor,      \* hardware: how the temperature moves ("free"/"ramp")
    call,        \* history: the operation that produced this state
    invalids,    \* history: rejected selectOption calls in a row before it
    stopped,     \* history: stop() was called and start() not since
    starts,      \* history: start() calls so far, counted up to MaxStarts
    pre,         \* history: the machine state before that operation
    ret,         \* history: what that operation returned (or raised)
    cmds         \* history: hardware commands issued by that operation

vars == <<plan, step, message, status, options, icon, time, currentTask,
          taskState, elapsed, asleep, heater, cooler, temp, sensor, call, invalids,
          stopped, starts, pre, ret, cmds>>

----------------------------------------------------------------------------
(* Values *)

\* The longest run of rejected selectOption calls that is counted.
MaxInvalids == 2

\* The sleeps of a heat or cool routine are counted up to this number.
MaxTicks == 7

\* The start() calls are counted up to this number.
MaxStarts == 2

\* The smaller of two numbers (a counter that stops at its bound).
Min(a, b) == IF a <= b THEN a ELSE b

\* Recipe.time = '' (class attribute) and self.time = '' in stop/runStep.
EmptyTime == -1

\* Recipe.step after stop().
StoppedStep == -1

\* The five values of Recipe.status.
Statuses == {"idle", "running", "user_input", "complete", "error"}

----------------------------------------------------------------------------
(* The plan object: steps and their optional keys *)

\* parameters dictionaries of the baseTask functions. Temperatures are in
\* tenths of a degree, times in seconds.
NoParams ==
    [has |-> {}, time |-> 0, temp |-> 0, tolerance |-> 0, type |-> "",
     pump |-> "", volume |-> 0]
TempParams(t) == [NoParams EXCEPT !.has = {"temp"}, !.temp = t]
TimeParams(d) == [NoParams EXCEPT !.has = {"time"}, !.time = d]
MaintainParams(d, t, tol) ==
    [NoParams EXCEPT !.has = {"time", "temp", "tolerance"}, !.time = d,
                     !.temp = t, !.tolerance = tol]

PumpParams(p, v) ==
    [NoParams EXCEPT !.has = {"pump", "volume"}, !.pump = p, !.volume = v]

\* No routine has been handed to the task runner yet.
NoTask == [name |-> "", base |-> FALSE, parameters |-> NoParams]

\* A step that carries only the mandatory message.
MsgStep(m) ==
    [has |-> {}, message |-> m, next |-> 0, icon |-> "", options |-> <<>>,
     baseTask |-> "", task |-> "", parameters |-> NoParams, done |-> FALSE]

WithNext(s, n)     == [s EXCEPT !.has = @ \cup {"next"}, !.next = n]
WithIcon(s, i)     == [s EXCEPT !.has = @ \cup {"icon"}, !.icon = i]
WithOptions(s, os) == [s EXCEPT !.has = @ \cup {"options"}, !.options = os]
WithBaseTask(s, t) == [s EXCEPT !.has = @ \cup {"baseTask"}, !.baseTask = t]
WithTask(s, t)     == [s EXCEPT !.has = @ \cup {"task"}, !.task = t]
WithParams(s, p)   == [s EXCEPT !.has = @ \cup {"parameters"}, !.parameters = p]
WithDone(s, d)     == [s EXCEPT !.has = @ \cup {"done"}, !.done = d]

Opt(t, n) == [text |-> t, next |-> n]

\* The two-step plan of the specification's selectOption scenario: step 0
\* asks Yes/No, step 1 is the final step; "No" names a step that is absent.
PlanYesNo ==
    << WithOptions(WithBaseTask(MsgStep("Continue?"), "humanTask"),
                   <<Opt("Yes", 1), Opt("No", 2)>>),
       WithDone(MsgStep("Done"), TRUE) >>

\* A linear recipe: heat, then maintain, then a final human step.
PlanChain ==
    << WithIcon(WithNext(WithParams(WithBaseTask(MsgStep("Heating"), "heat"),
                                    TempParams(650)), 1), "temperature"),
       WithNext(WithParams(WithBaseTask(MsgStep("Holding"), "maintainHeat"),
                           MaintainParams(1, 650, 20)), 2),
       WithDone(WithIcon(WithBaseTask(MsgStep("Finished"), "humanTask"),
                         "reaction_complete"), TRUE) >>

\* A step with both options and a routine, followed by a final step that
\* itself dispatches a routine and offers options.
PlanBoth ==
    << WithNext(WithOptions(WithParams(WithBaseTask(MsgStep("Stir?"), "stir"),
                                       TimeParams(1)),
                            <<Opt("A", 1), Opt("B", 0)>>), 1),
       WithDone(WithOptions(WithParams(WithBaseTask(MsgStep("Pump"), "pump"),
                                       NoParams),
                            <<Opt("B", 0)>>), TRUE) >>

\* A plan whose final step names a routine but carries no parameters key.
PlanNoParams ==
    << WithNext(WithParams(WithBaseTask(MsgStep("Cooling"), "cool"),
                           TempParams(50)), 1),
       WithDone(WithBaseTask(MsgStep("Dispense"), "pump"), TRUE) >>

\* Options leading to a routine, to a message-only step and to a menu that
\* is the last step of the list; two options of the menu share their text.
PlanMenu ==
    << WithOptions(MsgStep("Ready"),
                   <<Opt("Go", 1), Opt("Info", 2), Opt("Menu", 3)>>),
       WithNext(WithParams(WithTask(WithBaseTask(MsgStep("Working"), "stir"),
                                    "custom"), TimeParams(1)), 2),
       WithDone(WithOptions(MsgStep("Note"), <<>>), FALSE),
       WithOptions(MsgStep("Menu"),
                   <<Opt("Again", 1), Opt("Again", 0), Opt("Info", 2)>>) >>

\* A single step that dispatches a routine and is the final step.
PlanOneShot ==
    << WithDone(WithParams(WithBaseTask(MsgStep("Rinse"), "stir"),
                           TimeParams(1)), TRUE) >>

\* A question whose answer leads to a final step that names a routine,
\* offers an option and carries no parameters key.
PlanDose ==
    << WithOptions(WithBaseTask(MsgStep("Dose?"), "humanTask"),
                   <<Opt("Yes", 1), Opt("No", 0)>>),
       WithDone(WithOptions(WithBaseTask(MsgStep("Dosing"), "pump"),
                            <<Opt("Again", 1)>>), TRUE) >>

Plans ==
    {PlanYesNo, PlanChain, PlanBoth, PlanNoParams, PlanMenu, PlanOneShot,
     PlanDose}

\* Texts a user may send to selectOption: every text of every plan and one
\* that no plan offers.
Texts == {"Yes", "No", "A", "B", "Go", "Info", "Menu", "Again", "Maybe"}

----------------------------------------------------------------------------
(* Python list indexing: plan['steps'][i] *)

\* i is an index the list accepts (negative indices count from the end).
ValidIndex(p, i) == -Len(p) <= i /\ i < Len(p)

\* plan['steps'][i] for a valid i.
PyIndex(p, i) == IF i >= 0 THEN p[i + 1] ELSE p[Len(p) + i + 1]

----------------------------------------------------------------------------
(* Task runner (recipes.celery): at most one routine outstanding *)

\* A routine has been accepted and has neither returned nor raised.
Outstanding(m) == m.taskState \in {"queued", "running"}

\* celery.isTaskComplete()
isTaskComplete(m) == ~Outstanding(m)

\* celery.runTask(task, parameters, base) accepts the routine iff none is
\* outstanding.
runTaskAccepts(m) == ~Outstanding(m)

\* The task runner after it accepted a routine.
runTask(m, name, params, base) ==
    [m EXCEPT !.currentTask = [name |-> name, base |-> base,
                               parameters |-> params],
              !.taskState = "queued"]

----------------------------------------------------------------------------
(* Recipe: the handlers as functions of the machine state m *)

\* Outcome of a handler: the state it leaves, its return value and the
\* exception it raised, if any.
Outcome(m, value, raised) == [m |-> m, value |-> value, raised |-> raised]

\* Return values: None, the getStatus() dictionary, a bare boolean and the
\* (boolean, string) pair of selectOption.
NoDict == [status |-> "", step |-> 0, message |-> "", options |-> <<>>,
           icon |-> "", time |-> 0]
RetNone == [kind |-> "None", ok |-> FALSE, text |-> "", dict |-> NoDict]
RetBool(b) == [kind |-> "bool", ok |-> b, text |-> "", dict |-> NoDict]
RetPair(b, s) == [kind |-> "pair", ok |-> b, text |-> s, dict |-> NoDict]
RetDict(d) == [kind |-> "dict", ok |-> FALSE, text |-> "", dict |-> d]

\* Recipe.getStatus
getStatus(m) ==
    [status |-> m.status, step |-> m.step, message |-> m.message,
     options |-> m.options, icon |-> m.icon, time |-> m.time]

\* hardware.turnHeaterOff() / turnCoolerOff() / ... : the command is logged
\* and becomes the actuator's commanded state.
turnHeaterOff(m) == [m EXCEPT !.heater = "off", !.cmds = Append(@, "heaterOff")]
turnHeaterOn(m)  == [m EXCEPT !.heater = "on",  !.cmds = Append(@, "heaterOn")]
turnCoolerOff(m) == [m EXCEPT !.cooler = "off", !.cmds = Append(@, "coolerOff")]
turnCoolerOn(m)  == [m EXCEPT !.cooler = "on",  !.cmds = Append(@, "coolerOn")]

\* stop without its last line: the cooler is left as it is.
stopHeaterOnly(m) ==
    turnHeaterOff(
        [m EXCEPT !.step = StoppedStep, !.status = "idle", !.message = "",
                  !.options = <<>>, !.time = EmptyTime])

\* Recipe.stop
stop(m) ==
    turnCoolerOff(turnHeaterOff(
        [m EXCEPT !.step = StoppedStep, !.status = "idle", !.message = "",
                  !.options = <<>>, !.time = EmptyTime]))

\* runStep, lines 223-227: the texts of the step's options, in order.
OptionTexts(s) ==
    IF "options" \in s.has
    THEN [k \in 1..Len(s.options) |-> s.options[k].text]
    ELSE <<>>

\* runStep, line 236: the step names a routine to dispatch.
NeedsDispatch(s) == "baseTask" \in s.has /\ s.baseTask # "humanTask"

\* runStep, lines 237-242: 'task' overrides 'baseTask'.
TaskName(s) == IF "task" \in s.has THEN s.task ELSE s.baseTask
TaskIsBase(s) == "task" \notin s.has

\* runStep, lines 251-254: the value surfaced in self.time.
StepTime(s) ==
    IF "parameters" \in s.has /\ "time" \in s.parameters.has
    THEN s.parameters.time
    ELSE EmptyTime

\* lines 169 and 256-257: the step's done flag is set.
IsDone(s) == "done" \in s.has /\ s.done = TRUE

\* runStep, lines 251-260: after the dispatch decision.
runStepTail(m, s) ==
    LET m1 == [m EXCEPT !.time = StepTime(s)]
        m2 == IF IsDone(s) THEN [m1 EXCEPT !.status = "complete"] ELSE m1
    IN  Outcome(m2, RetBool(TRUE), "none")

\* runStep that goes on to the time and the done flag after a refused
\* dispatch (the return of line 249 after them).
runStepDispatchFallThrough(m, s) ==
    IF ~NeedsDispatch(s) THEN runStepTail(m, s)
    ELSE IF "parameters" \notin s.has THEN Outcome(m, RetNone, "KeyError")
    ELSE IF runTaskAccepts(m)
    THEN runStepTail([runTask(m, TaskName(s), s.parameters, TaskIsBase(s))
                         EXCEPT !.status = "running"], s)
    ELSE Outcome(runStepTail([m EXCEPT !.status = "error"], s).m,
                 RetBool(FALSE), "none")

\* runStep, lines 236-249: the dispatch of the step's routine.
runStepDispatch(m, s) ==
    IF ~NeedsDispatch(s) THEN runStepTail(m, s)
    ELSE IF "parameters" \notin s.has THEN Outcome(m, RetNone, "KeyError")
    ELSE IF runTaskAccepts(m)
    THEN runStepTail([runTask(m, TaskName(s), s.parameters, TaskIsBase(s))
                         EXCEPT !.status = "running"], s)
    ELSE Outcome([m EXCEPT !.status = "error"], RetBool(FALSE), "none")

\* Recipe.runStep
runStep(p, m) ==
    IF ~ValidIndex(p, m.step) THEN Outcome(m, RetNone, "IndexError")
    ELSE
      LET s  == PyIndex(p, m.step)
          m1 == [m EXCEPT !.message = s.message]
          m2 == IF "options" \in s.has /\ Len(OptionTexts(s)) > 0
                THEN [m1 EXCEPT !.status = "user_input"] ELSE m1
          m3 == [m2 EXCEPT !.options = OptionTexts(s)]
          m4 == IF "icon" \in s.has THEN [m3 EXCEPT !.icon = s.icon] ELSE m3
      IN  runStepDispatch(m4, s)

\* Recipe.start: the result of runStep is dropped, None is returned.
start(p, m) ==
    LET r == runStep(p, [m EXCEPT !.step = 0])
    IN  Outcome(r.m, RetNone, r.raised)

\* advance that is off by one in the step it moves to.
advanceSkip(p, m, s) ==
    IF "next" \in s.has
    THEN LET r == runStep(p, [m EXCEPT !.step = s.next + 1])
         IN  IF r.raised # "none" THEN Outcome(r.m, RetNone, r.raised)
             ELSE Outcome(r.m, RetDict(getStatus(r.m)), "none")
    ELSE Outcome(m, RetDict(getStatus(m)), "none")

\* advance that runs the step again and forgets to move to 'next'.
advanceAgain(p, m, s) ==
    IF "next" \in s.has
    THEN LET r == runStep(p, m)
         IN  IF r.raised # "none" THEN Outcome(r.m, RetNone, r.raised)
             ELSE Outcome(r.m, RetDict(getStatus(r.m)), "none")
    ELSE Outcome(m, RetDict(getStatus(m)), "none")

\* updateStatus, lines 173-175: advance to 'next' when the step names one.
advance(p, m, s) ==
    IF "next" \in s.has
    THEN LET r == runStep(p, [m EXCEPT !.step = s.next])
         IN  IF r.raised # "none" THEN Outcome(r.m, RetNone, r.raised)
             ELSE Outcome(r.m, RetDict(getStatus(r.m)), "none")
    ELSE Outcome(m, RetDict(getStatus(m)), "none")

\* A poll that does not look at the status.
ShouldPollAlways(m) == TRUE

\* updateStatus, line 166: only a running recipe polls the task runner.
ShouldPoll(m) == m.status = "running"

\* Recipe.updateStatus
updateStatus(p, m) ==
    IF ShouldPoll(m) /\ isTaskComplete(m)
    THEN IF ~ValidIndex(p, m.step) THEN Outcome(m, RetNone, "IndexError")
         ELSE LET s == PyIndex(p, m.step)
              IN  IF IsDone(s)
                  THEN Outcome(stop(m), RetDict(getStatus(stop(m))), "none")
                  ELSE advance(p, m, s)
    ELSE Outcome(m, RetDict(getStatus(m)), "none")

\* selectOption, lines 195-199: positions of the options whose text is v.
Matches(s, v) ==
    IF "options" \in s.has
    THEN {k \in 1..Len(s.options) : s.options[k].text = v}
    ELSE {}

\* The first match decides (a loop that stops at the first match).
MatchedNextFirst(s, v) ==
    LET ks == Matches(s, v)
        k  == CHOOSE x \in ks : \A y \in ks : x <= y
    IN  s.options[k].next

\* selectOption, lines 196-199: every match assigns self.step, so the last
\* match decides.
MatchedNext(s, v) ==
    LET ks == Matches(s, v)
        k  == CHOOSE x \in ks : \A y \in ks : y <= x
    IN  s.options[k].next

\* selectOption without the early return of lines 201-202: the current
\* step is run again when nothing matched.
selectOptionNoReject(p, m, v) ==
    IF ~ValidIndex(p, m.step) THEN Outcome(m, RetNone, "IndexError")
    ELSE
      LET s == PyIndex(p, m.step)
          n == IF Matches(s, v) = {} THEN m.step ELSE MatchedNext(s, v)
          r == runStep(p, [m EXCEPT !.step = n])
      IN  IF r.raised # "none" THEN Outcome(r.m, RetNone, r.raised)
          ELSE Outcome(r.m, RetPair(r.value.ok, r.m.message), "none")

\* Recipe.selectOption
selectOption(p, m, v) ==
    IF ~ValidIndex(p, m.step) THEN Outcome(m, RetNone, "IndexError")
    ELSE
      LET s == PyIndex(p, m.step)
      IN  IF Matches(s, v) = {}
          THEN Outcome(m, RetPair(FALSE, "Invalid option " \o v), "none")
          ELSE LET r == runStep(p, [m EXCEPT !.step = MatchedNext(s, v)])
               IN  IF r.raised # "none" THEN Outcome(r.m, RetNone, r.raised)
                   ELSE Outcome(r.m, RetPair(r.value.ok, r.m.message), "none")

----------------------------------------------------------------------------
(* Control routines, run by the task runner's worker *)

\* interval = 0.5: the number of sleeps that make up one second.
TicksPerSecond == 2

\* Sensor readings, in tenths of a degree: below the cool target, just
\* outside, on and inside the band around 65.0 +/- 2.0, and above it.
Temps == {40, 629, 630, 640, 650, 660, 670, 671}

\* The simulated sensor that rises by one degree per tick until it reaches
\* the top of its range.
Ramp == [rise |-> 10, top |-> 700]

\* The temperatures the sensor may show after one more hardware.sleep(0.5):
\* any reading for a free sensor, the next point of the ramp otherwise.
AfterSleep(kind, t) ==
    IF kind = "ramp" THEN {Min(t + Ramp.rise, Ramp.top)} ELSE Temps

\* hardware.sleep(interval): one more sleep is counted and the sensor shows
\* t afterwards. The count of heat and cool, whose loops have no time
\* limit, stops at MaxTicks.
sleep(m, t) == [m EXCEPT !.elapsed = @ + 1, !.temp = t]
sleepCounted(m, t) == [m EXCEPT !.elapsed = Min(@ + 1, MaxTicks), !.temp = t]

\* The routine has run to its end.
finish(m) == [m EXCEPT !.taskState = "complete"]

\* The routine has ended by an exception.
fail(m) == [m EXCEPT !.taskState = "failed"]

\* The keys each routine reads from its parameters before its first
\* hardware call (lines 273, 291, 350-353, 389-390, 404); maintainCool and
\* maintainHeat assign 'type' themselves (lines 312, 329).
ReadKeys(name) ==
    IF name \in {"heat", "cool"} THEN {"temp"}
    ELSE IF name = "stir" THEN {"time"}
    ELSE IF name = "pump" THEN {"pump", "volume"}
    ELSE IF name \in {"maintainHeat", "maintainCool"}
    THEN {"time", "temp", "tolerance"}
    ELSE {"time", "temp", "tolerance", "type"}

\* Commands that are logged only (no commanded state is kept for them).
logCmd(m, c) == [m EXCEPT !.cmds = Append(@, c)]

\* maintainHeat / maintainCool fix parameters['type'], maintain reads it.
MaintainType(task) ==
    IF task.name = "maintainHeat" THEN "heat"
    ELSE IF task.name = "maintainCool" THEN "cool"
    ELSE task.parameters.type

\* The upper comparison taken inclusively (>= for the > of line 363).
maintainHighInclusive(m, kind, t) ==
    IF t - m.currentTask.parameters.tolerance >= m.currentTask.parameters.temp
    THEN IF kind = "heat" THEN turnHeaterOff(m) ELSE turnCoolerOn(m)
    ELSE m

\* maintain, lines 363-367: the reading is above the band.
maintainHigh(m, kind, t) ==
    IF t - m.currentTask.parameters.tolerance > m.currentTask.parameters.temp
    THEN IF kind = "heat" THEN turnHeaterOff(m) ELSE turnCoolerOn(m)
    ELSE m

\* maintain, lines 368-372: the reading is below the band.
maintainLow(m, kind, t) ==
    IF t + m.currentTask.parameters.tolerance < m.currentTask.parameters.temp
    THEN IF kind = "heat" THEN turnHeaterOn(m) ELSE turnCoolerOff(m)
    ELSE m

\* The loop condition of maintain and stir:
\* (hardware.secondSinceStart() - start) < duration.
TimeLeft(m) == m.elapsed < TicksPerSecond * m.currentTask.parameters.time

\* maintain, lines 360-372: the routine wakes from hardware.sleep, reads
\* the sensor and commands the heater or the cooler; t is the temperature
\* after the sleep, and the reading.
maintainWake(m, t) ==
    LET kind == MaintainType(m.currentTask)
        m1   == [sleep(m, t) EXCEPT !.asleep = FALSE]
    IN  maintainLow(maintainHigh(m1, kind, m1.temp), kind, m1.temp)

\* maintain whose exit forgets the cooler (line 375 missing).
maintainTickHeaterOnly(m, t) ==
    IF m.asleep THEN maintainWake(m, t)
    ELSE IF TimeLeft(m) THEN [m EXCEPT !.asleep = TRUE]
    ELSE finish(turnHeaterOff(m))

\* maintain, lines 359-375, one step of the worker. The pass of the loop is
\* two steps, with the wait between them: the loop condition, which enters
\* hardware.sleep or leaves the loop for the exit commands, and the wake
\* with the reading and the command. The handlers can act in between.
maintainTick(m, t) ==
    IF m.asleep THEN maintainWake(m, t)
    ELSE IF TimeLeft(m) THEN [m EXCEPT !.asleep = TRUE]
    ELSE finish(turnCoolerOff(turnHeaterOff(m)))

\* heat that goes on while the reading is at the target (<= for the < of
\* line 276).
heatTickInclusive(m, t) ==
    IF m.temp <= m.currentTask.parameters.temp THEN sleepCounted(m, t)
    ELSE finish(turnHeaterOff(m))

\* heat, lines 276-278: the loop condition reads the sensor, the body
\* sleeps; t is the temperature after that sleep.
heatTick(m, t) ==
    IF m.temp < m.currentTask.parameters.temp THEN sleepCounted(m, t)
    ELSE finish(turnHeaterOff(m))

\* cool, lines 294-296.
coolTick(m, t) ==
    IF m.temp > m.currentTask.parameters.temp THEN sleepCounted(m, t)
    ELSE finish(turnCoolerOff(m))

\* stir, lines 409-411. stir never reads the sensor.
stirTick(m, t) ==
    IF TimeLeft(m) THEN sleep(m, t)
    ELSE finish(logCmd(m, "stirrerOff"))

\* The routine cannot read a key from its parameters: parameters[key]
\* raises KeyError.
KeyMissing(task) == ~(ReadKeys(task.name) \subseteq task.parameters.has)

\* The worker picks the queued routine up and runs it to its loop (pump has
\* no loop and runs to its end). The routine first reads its parameters: a
\* missing key ends it by KeyError before any hardware command. A task that
\* is not a base task is not a function of recipes.base: it issues none of
\* its commands.
routineBegin(m) ==
    LET task == m.currentTask
        m1   == [m EXCEPT !.taskState = "running", !.elapsed = 0,
                          !.asleep = FALSE]
    IN  IF ~task.base THEN finish(m1)
        ELSE IF KeyMissing(task) THEN fail(m1)
        ELSE IF task.name = "heat" THEN turnHeaterOn(m1)
        ELSE IF task.name = "cool" THEN turnCoolerOn(m1)
        ELSE IF task.name = "stir" THEN logCmd(m1, "stirrerOn")
        ELSE IF task.name = "pump" THEN finish(logCmd(m1, "pumpDispense"))
        ELSE m1

\* One tick of the running routine's loop.
routineTick(m, t) ==
    LET task == m.currentTask
    IN  IF task.name = "heat" THEN heatTick(m, t)
        ELSE IF task.name = "cool" THEN coolTick(m, t)
        ELSE IF task.name = "stir" THEN stirTick(m, t)
        ELSE maintainTick(m, t)

----------------------------------------------------------------------------
(* The state machine *)

\* The machine state as one value; cmds starts empty for every operation.
Machine ==
    [step |-> step, message |-> message, status |-> status,
     options |-> options, icon |-> icon, time |-> time,
     currentTask |-> currentTask, taskState |-> taskState,
     elapsed |-> elapsed, asleep |-> asleep, heater |-> heater, cooler |-> cooler,
     temp |-> temp, cmds |-> <<>>]

\* The last operation was a selectOption call that was rejected as an
\* invalid option (lines 201-202).
Rejected ==
    /\ call.op = "selectOption"
    /\ ret.raised = "none"
    /\ ret.value = RetPair(FALSE, "Invalid option " \o call.arg)

\* The state after an operation that left the machine in m and returned
\* value (or raised).
Becomes(m, value, raised) ==
    /\ step' = m.step
    /\ message' = m.message
    /\ status' = m.status
    /\ options' = m.options
    /\ icon' = m.icon
    /\ time' = m.time
    /\ currentTask' = m.currentTask
    /\ taskState' = m.taskState
    /\ elapsed' = m.elapsed
    /\ asleep' = m.asleep
    /\ heater' = m.heater
    /\ cooler' = m.cooler
    /\ temp' = m.temp
    /\ cmds' = m.cmds
    /\ pre' = Machine
    /\ invalids' = IF Rejected THEN Min(invalids + 1, MaxInvalids) ELSE 0
    /\ ret' = [value |-> value, raised |-> raised]
    /\ UNCHANGED <<plan, sensor>>

\* The class attributes of Recipe and the constructor.
Init ==
    /\ plan \in Plans
    /\ step = 0
    /\ message = ""
    /\ status = "idle"
    /\ options = <<>>
    /\ icon = ""
    /\ time = EmptyTime
    /\ currentTask = NoTask
    /\ taskState = "none"
    /\ elapsed = 0
    /\ asleep = FALSE
    /\ heater = "off"
    /\ cooler = "off"
    /\ temp \in Temps
    /\ sensor = "free"
    /\ cmds = <<>>
    /\ call = [op |-> "init", arg |-> ""]
    /\ invalids = 0
    /\ stopped = FALSE
    /\ starts = 0
    /\ pre = Machine
    /\ ret = [value |-> RetNone, raised |-> "none"]

Handled(r) == Becomes(r.m, r.value, r.raised)

Called(op, arg) == [op |-> op, arg |-> arg]

Start ==
    /\ call' = Called("start", "")
    /\ stopped' = FALSE
    /\ starts' = Min(starts + 1, MaxStarts)
    /\ Handled(start(plan, Machine))

Stop ==
    /\ call' = Called("stop", "")
    /\ stopped' = TRUE
    /\ UNCHANGED starts
    /\ Becomes(stop(Machine), RetNone, "none")

GetStatus ==
    /\ call' = Called("getStatus", "")
    /\ UNCHANGED <<stopped, starts>>
    /\ Becomes(Machine, RetDict(getStatus(Machine)), "none")

\* A direct call of the public method runStep: the step at self.step is
\* executed again, self.step is left where it is.
RunStep ==
    /\ call' = Called("runStep", "")
    /\ UNCHANGED <<stopped, starts>>
    /\ Handled(runStep(plan, Machine))

UpdateStatus ==
    /\ call' = Called("updateStatus", "")
    /\ UNCHANGED <<stopped, starts>>
    /\ Handled(updateStatus(plan, Machine))

SelectOption ==
    \E v \in Texts :
        /\ call' = Called("selectOption", v)
        /\ UNCHANGED <<stopped, starts>>
        /\ Handled(selectOption(plan, Machine, v))

WorkerBegin ==
    /\ taskState = "queued"
    /\ call' = Called("worker", "begin")
    /\ UNCHANGED <<stopped, starts>>
    /\ Becomes(routineBegin(Machine), RetNone,
               IF currentTask.base /\ KeyMissing(currentTask)
               THEN "KeyError" ELSE "none")

WorkerTick ==
    /\ taskState = "running"
    /\ call' = Called("worker", "tick")
    /\ UNCHANGED <<stopped, starts>>
    /\ \E t \in AfterSleep(sensor, temp) :
           Becomes(routineTick(Machine, t), RetNone, "none")

Next ==
    \/ Start
    \/ Stop
    \/ GetStatus
    \/ RunStep
    \/ UpdateStatus
    \/ SelectOption
    \/ WorkerBegin
    \/ WorkerTick

Spec == Init /\ [][Next]_vars

----------------------------------------------------------------------------
(* The control routines on their own: a routine called with parameters    *)
(* drawn from small sets, against a free or a ramping sensor.              *)

\* parameters of maintain with an explicit 'type'.
TypedParams(d, t, tol, kind) ==
    [MaintainParams(d, t, tol) EXCEPT !.has = @ \cup {"type"}, !.type = kind]

\* A call of a function of recipes.base, as the task runner makes it.
BaseTask(name, params) == [name |-> name, base |-> TRUE, parameters |-> params]

\* The calls that are tried: heat and cool to a target, stir, pump, and
\* maintain in its three forms, for a negative, a zero and positive
\* durations and for a negative, a zero and a positive tolerance around
\* 65.0 degrees; and calls whose parameters lack a key the routine reads.
RoutineCalls ==
    {BaseTask("heat", TempParams(650)), BaseTask("cool", TempParams(50)),
     BaseTask("stir", TimeParams(1)), BaseTask("pump", PumpParams("A", 50)),
     BaseTask("pump", NoParams), BaseTask("heat", NoParams),
     BaseTask("stir", TempParams(650)),
     BaseTask("maintain", MaintainParams(1, 650, 20)),
     BaseTask("maintainHeat", TempParams(650))}
    \cup {BaseTask(n, MaintainParams(d, 650, tol)) :
            n \in {"maintainHeat", "maintainCool"}, d \in {-1, 0, 1, 2},
            tol \in {-20, 0, 20}}
    \cup {BaseTask("maintain", TypedParams(d, 650, tol, k)) :
            d \in {-1, 0, 1, 2}, tol \in {-20, 0, 20}, k \in {"heat", "cool"}}

\* The first temperatures of the simulated sensor: 60.0, 65.0 and 66.0.
RampStarts == {600, 650, 660}

InitRoutine ==
    /\ plan = PlanChain
    /\ step = 0
    /\ message = ""
    /\ status = "idle"
    /\ options = <<>>
    /\ icon = ""
    /\ time = EmptyTime
    /\ currentTask \in RoutineCalls
    /\ taskState = "queued"
    /\ elapsed = 0
    /\ asleep = FALSE
    /\ heater \in {"on", "off"}
    /\ cooler \in {"on", "off"}
    /\ \/ sensor = "free" /\ temp \in Temps
       \/ sensor = "ramp" /\ temp \in RampStarts
    /\ cmds = <<>>
    /\ call = [op |-> "init", arg |-> ""]
    /\ invalids = 0
    /\ stopped = FALSE
    /\ starts = 0
    /\ pre = Machine
    /\ ret = [value |-> RetNone, raised |-> "none"]

NextRoutine ==
    \/ WorkerBegin
    \/ WorkerTick

SpecRoutine == InitRoutine /\ [][NextRoutine]_vars

----------------------------------------------------------------------------
(* The recipe driven by a poller on a plan without options: start(),     *)
(* getStatus(), runStep() and the poll may be called at any time, the poll *)
(* is called again and again, and the worker runs. stop() is not called,   *)
(* and selectOption(), which such a plan always rejects, is left out.      *)

\* A plan without options in which every step that is not done names a
\* routine and a next.
InitLive ==
    /\ Init
    /\ \A i \in 1..Len(plan) :
           /\ "options" \notin plan[i].has
           /\ ~IsDone(plan[i]) =>
                  (NeedsDispatch(plan[i]) /\ "next" \in plan[i].has)

NextLive ==
    \/ Start
    \/ GetStatus
    \/ RunStep
    \/ UpdateStatus
    \/ WorkerBegin
    \/ WorkerTick

SpecLive ==
    /\ InitLive
    /\ [][NextLive]_vars
    /\ WF_vars(UpdateStatus)
    /\ WF_vars(WorkerBegin)
    /\ WF_vars(WorkerTick)

\* Type correctness of the run's fields.
TypeOK ==
    /\ plan \in Plans
    /\ status \in Statuses
    /\ step \in Int
    /\ heater \in {"on", "off"}
    /\ cooler \in {"on", "off"}
    /\ taskState \in {"none", "queued", "running", "complete", "failed"}
    /\ asleep \in BOOLEAN

----------------------------------------------------------------------------
(* Properties. Each is stated on the state an operation produced: `call`  *)
(* names the operation, `pre` is the machine before it, `ret` its result   *)
(* and `cmds` the hardware commands it issued.                             *)

\* The run's fields before the last operation.
PreFields == getStatus(pre)

\* Everything the machine holds is as it was before the last operation.
Untouched == Machine = pre /\ cmds = <<>>

\* The step that was current before the last operation, if it exists.
PreStepExists == ValidIndex(plan, pre.step)
PreStep == PyIndex(plan, pre.step)

\* A step the plan format allows to be executed: it exists and, if it names
\* a routine, it carries the routine's parameters.
Executable(i) ==
    /\ 0 <= i /\ i < Len(plan)
    /\ NeedsDispatch(PyIndex(plan, i)) => "parameters" \in PyIndex(plan, i).has

\* The routine of step s was handed to the task runner by the last operation.
DispatchedFor(s) ==
    /\ taskState = "queued"
    /\ currentTask = [name |-> TaskName(s), base |-> TaskIsBase(s),
                      parameters |-> s.parameters]

\* The task runner holds what it held before the last operation.
NothingDispatched ==
    /\ currentTask = pre.currentTask
    /\ taskState = pre.taskState
    /\ elapsed = pre.elapsed

\* C1: stop(), called in any state, leaves status idle, message, options
\* and time empty, and commands the heater off and the cooler off.
C1_StopResets ==
    call.op = "stop" =>
        /\ status = "idle"
        /\ message = ""
        /\ options = <<>>
        /\ time = EmptyTime
        /\ \E i \in 1..Len(cmds) : cmds[i] = "heaterOff"
        /\ \E i \in 1..Len(cmds) : cmds[i] = "coolerOff"
        /\ heater = "off" /\ cooler = "off"
        /\ ret.raised = "none"

\* C1 witness: stop() was called on a running recipe whose cooling routine
\* was still in its loop with the cooler on.
C1_Witness ==
    /\ call.op = "stop"
    /\ pre.status = "running"
    /\ pre.taskState = "running"
    /\ pre.cooler = "on"
    /\ status = "idle"

\* C2: updateStatus() on a recipe that is not running, or that is running
\* with its task still outstanding, changes no field, dispatches nothing,
\* issues no hardware command, and returns the status as it was.
C2_PollIsNoOp ==
    (call.op = "updateStatus" /\ (pre.status # "running" \/ Outstanding(pre)))
    =>  /\ getStatus(Machine) = PreFields
        /\ NothingDispatched
        /\ cmds = <<>>
        /\ heater = pre.heater /\ cooler = pre.cooler
        /\ ret.raised = "none"
        /\ ret.value = RetDict(PreFields)

\* C2 witness: updateStatus() was called on a running recipe whose routine
\* was still in its loop, at a step that names a next, and returned the
\* unchanged status.
C2_Witness ==
    /\ call.op = "updateStatus"
    /\ pre.status = "running"
    /\ pre.taskState = "running"
    /\ PreStepExists /\ "next" \in PreStep.has
    /\ status = "running" /\ step = pre.step
    /\ ret.value = RetDict(PreFields)

\* C3 (as claimed, stated for a next that names a step of the plan):
\* updateStatus() on a running recipe whose task is complete and whose
\* current step is not done makes the step named by next current and
\* executes it in the same call: its message is set and its routine, if it
\* names one, is dispatched.
C3_PollExecutesNext ==
    (/\ call.op = "updateStatus"
     /\ pre.status = "running" /\ ~Outstanding(pre)
     /\ PreStepExists /\ ~IsDone(PreStep)
     /\ "next" \in PreStep.has /\ ValidIndex(plan, PreStep.next))
    =>  LET tgt == PyIndex(plan, PreStep.next)
        IN  /\ step = PreStep.next
            /\ message = tgt.message
            /\ NeedsDispatch(tgt) => DispatchedFor(tgt)
            /\ ret.raised = "none"

\* What the code guarantees in the case of C3: the step named by next is
\* made current and executed, its routine dispatched, when that step exists
\* and, if it names a routine, carries the routine's parameters.
C3_PollAdvances ==
    (/\ call.op = "updateStatus"
     /\ pre.status = "running" /\ ~Outstanding(pre)
     /\ PreStepExists /\ ~IsDone(PreStep)
     /\ "next" \in PreStep.has /\ Executable(PreStep.next))
    =>  LET tgt == PyIndex(plan, PreStep.next)
        IN  /\ step = PreStep.next
            /\ message = tgt.message
            /\ options = OptionTexts(tgt)
            /\ IF NeedsDispatch(tgt)
               THEN DispatchedFor(tgt)
               ELSE NothingDispatched
            /\ ret.raised = "none"
            /\ ret.value = RetDict(getStatus(Machine))

\* C4 (as claimed): updateStatus() on a running recipe whose task is
\* complete and whose current step is done ends the run with status
\* complete, commands heater and cooler off and leaves message and options
\* as they were.
C4_DonePollCompletes ==
    (/\ call.op = "updateStatus"
     /\ pre.status = "running" /\ ~Outstanding(pre)
     /\ PreStepExists /\ IsDone(PreStep))
    =>  /\ status = "complete"
        /\ \E i \in 1..Len(cmds) : cmds[i] = "heaterOff"
        /\ \E i \in 1..Len(cmds) : cmds[i] = "coolerOff"
        /\ message = pre.message
        /\ options = pre.options

\* What the code does in the case of C4: the run is stopped.
C4_DonePollStops ==
    (/\ call.op = "updateStatus"
     /\ pre.status = "running" /\ ~Outstanding(pre)
     /\ PreStepExists /\ IsDone(PreStep))
    =>  /\ status = "idle" /\ step = StoppedStep
        /\ message = "" /\ options = <<>> /\ time = EmptyTime
        /\ cmds = <<"heaterOff", "coolerOff">>

\* The case of C4 is reached only on a step whose routine has no
\* parameters: runStep raised before it could set the status.
C4_OnlyAfterRaise ==
    (pre.status = "running" /\ PreStepExists /\ IsDone(PreStep))
    => ~Executable(pre.step)

\* The position of the last option of step s whose text is v.
LastMatching(s, v) ==
    CHOOSE k \in 1..Len(s.options) :
        /\ s.options[k].text = v
        /\ \A j \in (k + 1)..Len(s.options) : s.options[j].text # v

\* Step s names a routine and carries no parameters for it.
LacksParameters(s) == NeedsDispatch(s) /\ "parameters" \notin s.has

\* The last operation, a selectOption call with a text the step at
\* self.step offers, moved to the next of the last option of that text and
\* ran it. A next that names no step raises IndexError with the step pointer
\* already moved; a step that names a routine without parameters raises
\* KeyError after its message and options were set; a dispatch refused
\* because a routine is outstanding gives status error and False; anything
\* else gives True, the routine of the step dispatched if it names one.
ChoiceExecuted ==
    LET n == PreStep.options[LastMatching(PreStep, call.arg)].next
    IN  /\ step = n
        /\ IF ~ValidIndex(plan, n)
           THEN /\ ret.raised = "IndexError"
                /\ message = pre.message /\ options = pre.options
                /\ status = pre.status
                /\ NothingDispatched
           ELSE LET tgt     == PyIndex(plan, n)
                    refused == NeedsDispatch(tgt) /\ Outstanding(pre)
                IN  /\ message = tgt.message
                    /\ options = OptionTexts(tgt)
                    /\ IF LacksParameters(tgt)
                       THEN /\ ret.raised = "KeyError"
                            /\ NothingDispatched
                       ELSE /\ ret.raised = "none"
                            /\ ret.value = RetPair(~refused, tgt.message)
                            /\ refused =>
                                   status = "error" /\ NothingDispatched
                            /\ (~refused /\ NeedsDispatch(tgt)) =>
                                   DispatchedFor(tgt)

\* The last operation was a selectOption call with a text that matches no
\* option of the step at self.step.
InvalidChoice ==
    /\ call.op = "selectOption"
    /\ PreStepExists
    /\ Matches(PreStep, call.arg) = {}

\* The rejected call returned (False, 'Invalid option ' + text) and left
\* every field, the task runner and the hardware untouched.
RejectedUntouched ==
    /\ ret.raised = "none"
    /\ ret.value = RetPair(FALSE, "Invalid option " \o call.arg)
    /\ Untouched
    /\ heater = pre.heater /\ cooler = pre.cooler

\* C5 (as claimed, the later call stated for status user_input and a
\* matched next that exists and carries the parameters of its routine):
\* selectOption(text) with a text that matches no option of the current
\* step returns failure and leaves everything untouched, and after any
\* number of such calls a call with a matching text succeeds.
C5_ValidAfterInvalidSucceeds ==
    /\ InvalidChoice => RejectedUntouched
    /\ (call.op = "selectOption" /\ invalids > 0
        /\ pre.status = "user_input" /\ PreStepExists
        /\ Matches(PreStep, call.arg) # {}
        /\ Executable(PreStep.options[LastMatching(PreStep, call.arg)].next))
       =>  /\ ret.raised = "none"
           /\ ret.value.kind = "pair"
           /\ ret.value.ok = TRUE

\* C5 (amended): selectOption(text) with a text that matches no option of
\* the current step returns (False, 'Invalid option ' + text) and leaves
\* every field, the task runner and the hardware untouched; after any
\* number of such calls a call with a matching text is accepted, in every
\* status and for every target: it moves to the matched option's next and
\* runs it, with the outcome of any matching call (True, or False on a
\* refused dispatch, or IndexError / KeyError on a next that names no step
\* / a routine step without parameters).
C5_InvalidOptionIsNoOp ==
    /\ InvalidChoice => RejectedUntouched
    /\ (call.op = "selectOption" /\ invalids > 0 /\ PreStepExists
        /\ Matches(PreStep, call.arg) # {})
       => ChoiceExecuted

\* C5 witness: after two rejected calls in user_input a call with a text
\* the step offers succeeded.
C5_Witness ==
    /\ call.op = "selectOption"
    /\ invalids = MaxInvalids
    /\ pre.status = "user_input"
    /\ PreStepExists /\ Matches(PreStep, call.arg) # {}
    /\ step = MatchedNext(PreStep, call.arg)
    /\ ret.value = RetPair(TRUE, message)

\* The last operation was a selectOption call in user_input whose text is
\* one of the current step's option texts.
ValidChoice ==
    /\ call.op = "selectOption"
    /\ pre.status = "user_input"
    /\ PreStepExists
    /\ Matches(PreStep, call.arg) # {}

\* A valid choice, every option of that text leading to a step that exists
\* and, if it names a routine, carries the routine's parameters.
ExecutableChoice ==
    /\ ValidChoice
    /\ \A k \in Matches(PreStep, call.arg) :
           Executable(PreStep.options[k].next)

\* The scenario of C6 on the two-step Yes/No plan: start() asks the
\* question, selectOption('Yes') completes the recipe at step 1.
YesNoScenario ==
    plan = PlanYesNo =>
        /\ call.op = "start" =>
               /\ status = "user_input"
               /\ options = <<"Yes", "No">>
        /\ (call = Called("selectOption", "Yes") /\ pre.status = "user_input"
            /\ pre.step = 0)
           =>  /\ status = "complete"
               /\ message = "Done"
               /\ step = 1
               /\ ret.value = RetPair(TRUE, "Done")

\* C6 (as claimed, stated for the choices whose target exists and carries
\* the parameters of its routine): a valid choice in user_input moves to a
\* matched option's next, executes it and returns success with the new
\* message.
C6_ChoiceAlwaysSucceeds ==
    /\ ExecutableChoice =>
           /\ \E k \in Matches(PreStep, call.arg) :
                  step = PreStep.options[k].next
           /\ message = PyIndex(plan, step).message
           /\ ret.raised = "none"
           /\ ret.value = RetPair(TRUE, message)
    /\ YesNoScenario

\* C6 (amended): a valid choice in user_input moves to the next of the last
\* option with that text and executes it. It returns True with the new
\* step's message, except that a step which needs a routine dispatched
\* while one is outstanding gives status error and False with that step's
\* message, a next that names no step raises IndexError with the step
\* pointer already on it, and a step that names a routine without
\* parameters raises KeyError with its message and options set and nothing
\* dispatched. The Yes/No scenario holds as claimed.
C6_ChoiceAdvances ==
    /\ ValidChoice => ChoiceExecuted
    /\ YesNoScenario

\* C6 witness: on the Yes/No plan, after start(), selectOption('Yes') has
\* returned success with status complete, message 'Done' and step 1.
C6_Witness ==
    /\ plan = PlanYesNo
    /\ call = Called("selectOption", "Yes")
    /\ pre.status = "user_input" /\ pre.options = <<"Yes", "No">>
    /\ status = "complete" /\ message = "Done" /\ step = 1
    /\ ret.value = RetPair(TRUE, "Done")

\* C7 (as claimed): selectOption acts only in user_input; called in any
\* other status it does not change the current step, executes no step and
\* dispatches no routine.
C7_ChoiceOnlyInUserInput ==
    (call.op = "selectOption"
     /\ pre.status \in {"idle", "running", "complete", "error"})
    =>  /\ step = pre.step
        /\ message = pre.message
        /\ options = pre.options
        /\ NothingDispatched

\* What the code guarantees in the case of C7: only a text that matches no
\* option of the step at self.step is without effect.
C7_OnlyUnmatchedIgnored ==
    (call.op = "selectOption"
     /\ pre.status \in {"idle", "running", "complete", "error"}
     /\ PreStepExists /\ Matches(PreStep, call.arg) = {})
    => Untouched

\* The last operation executed step i: start() executes step 0,
\* selectOption the next of the matched option, updateStatus the next of a
\* finished step, a direct runStep() the step at self.step.
Executed(i) ==
    \/ call.op = "start" /\ i = 0
    \/ call.op = "runStep" /\ i = pre.step
    \/ /\ call.op = "selectOption"
       /\ PreStepExists /\ Matches(PreStep, call.arg) # {}
       /\ i = PreStep.options[LastMatching(PreStep, call.arg)].next
    \/ /\ call.op = "updateStatus"
       /\ pre.status = "running" /\ ~Outstanding(pre)
       /\ PreStepExists /\ ~IsDone(PreStep) /\ "next" \in PreStep.has
       /\ i = PreStep.next

\* The last operation executed a step that names a routine while a routine
\* was outstanding.
DispatchConflict ==
    \E i \in 0..(Len(plan) - 1) :
        /\ Executed(i)
        /\ Executable(i)
        /\ NeedsDispatch(PyIndex(plan, i))
        /\ Outstanding(pre)

\* The value returned to the caller tells a failure: False, or a pair whose
\* first component is False.
ReportsFailure ==
    /\ ret.raised = "none"
    /\ ret.value.kind \in {"bool", "pair"}
    /\ ret.value.ok = FALSE

\* C8 (as claimed): a dispatch requested while a routine is outstanding is
\* refused, status becomes error, the triggering call reports failure to
\* its caller without raising, and the outstanding routine stays the only
\* one.
C8_ConflictReported ==
    DispatchConflict =>
        /\ status = "error"
        /\ ret.raised = "none"
        /\ ReportsFailure
        /\ NothingDispatched

\* What the code guarantees in the case of C8: everything but the report,
\* which start() drops.
C8_ConflictRefused ==
    DispatchConflict =>
        /\ status = "error"
        /\ ret.raised = "none"
        /\ NothingDispatched
        /\ call.op \in {"selectOption", "runStep"} => ReportsFailure
        /\ call.op = "start" => ret.value = RetNone

\* Every next and every option target of the plan names an existing step.
TargetsExist ==
    \A i \in 1..Len(plan) :
        /\ "next" \in plan[i].has =>
               (0 <= plan[i].next /\ plan[i].next < Len(plan))
        /\ "options" \in plan[i].has =>
               \A k \in 1..Len(plan[i].options) :
                   /\ 0 <= plan[i].options[k].next
                   /\ plan[i].options[k].next < Len(plan)

\* The ids of the plan's steps: the positions of the list.
StepIds == 0..(Len(plan) - 1)

\* C9 (as claimed): on a plan whose targets all exist, the current step is
\* always the id of a step of the plan.
C9_StepAlwaysInPlan == TargetsExist => step \in StepIds

\* The step a direct runStep() executes while self.step is -1: the last
\* step of the list.
StepWhenStopped == PyIndex(plan, StoppedStep)

\* C9 (amended): on a plan whose targets all exist, the current step is the
\* id of a step of the plan, or it is -1, the value stop() sets: the recipe
\* is then idle with message and options empty, or a direct runStep() has
\* since executed the last step of the list and its message and options
\* show.
C9_StepInPlanOrStopped ==
    TargetsExist =>
        \/ step \in StepIds
        \/ /\ step = StoppedStep
           /\ \/ status = "idle" /\ message = "" /\ options = <<>>
              \/ /\ message = StepWhenStopped.message
                 /\ options = OptionTexts(StepWhenStopped)

\* C9 witness: stop() on a running recipe left step -1 with status idle on
\* a plan whose targets all exist.
C9_Witness ==
    /\ TargetsExist
    /\ call.op = "stop"
    /\ pre.status = "running" /\ pre.step \in StepIds
    /\ step = StoppedStep /\ status = "idle"

\* C10 (as claimed): once status is complete or error, updateStatus and
\* selectOption change neither status nor the current step.
C10_TerminalStatuses ==
    (call.op \in {"updateStatus", "selectOption"}
     /\ pre.status \in {"complete", "error"})
    =>  /\ status = pre.status
        /\ step = pre.step

\* What the code guarantees in the case of C10: updateStatus leaves a
\* complete or failed run alone, and so does selectOption with a text the
\* step at self.step does not offer.
C10_TerminalForPoll ==
    (/\ pre.status \in {"complete", "error"}
     /\ \/ call.op = "updateStatus"
        \/ /\ call.op = "selectOption"
           /\ PreStepExists /\ Matches(PreStep, call.arg) = {})
    => Untouched

----------------------------------------------------------------------------
(* Properties of the control routines *)

\* The routine that runs is maintain, called directly or through
\* maintainHeat / maintainCool.
MaintainRuns ==
    currentTask.name \in {"maintain", "maintainHeat", "maintainCool"}

\* The last operation was the tick in which the routine returned.
RoutineReturned ==
    /\ call = Called("worker", "tick")
    /\ pre.taskState = "running"
    /\ taskState = "complete"

\* C11: maintain, of either type and whatever the readings were, issues
\* heater-off and then cooler-off as its last commands, so that it returns
\* with neither actuator commanded on; also when time <= 0 and the loop
\* body never ran.
C11_MaintainEndsOff ==
    /\ (MaintainRuns /\ RoutineReturned) =>
           /\ cmds = <<"heaterOff", "coolerOff">>
           /\ heater = "off" /\ cooler = "off"
    /\ (MaintainRuns /\ RoutineReturned
        /\ currentTask.parameters.time <= 0) => elapsed = 0
    /\ (MaintainRuns /\ taskState = "complete") =>
           heater = "off" /\ cooler = "off"

\* C11 witness: a heat-type maintain that had the heater on, and the cooler
\* on from before the call, has returned after its loop ran.
C11_Witness ==
    /\ MaintainRuns /\ RoutineReturned
    /\ MaintainType(currentTask) = "heat"
    /\ pre.heater = "on" /\ pre.cooler = "on"
    /\ elapsed > 0
    /\ heater = "off" /\ cooler = "off"

\* The last operation was the reading and the command of one pass through
\* the loop body of maintain, after its sleep.
MaintainBody ==
    /\ MaintainRuns
    /\ call = Called("worker", "tick")
    /\ pre.taskState = "running" /\ pre.asleep
    /\ taskState = "running"

\* The commands of the last operation, as a set.
Issued == {cmds[i] : i \in 1..Len(cmds)}

\* The reading lies above / below the tolerance band around the target.
AboveBand ==
    temp - currentTask.parameters.tolerance > currentTask.parameters.temp
BelowBand ==
    temp + currentTask.parameters.tolerance < currentTask.parameters.temp

\* C12: in one pass of a heat-type maintain the heater is commanded off iff
\* reading - tolerance > temp and on iff reading + tolerance < temp, and
\* nothing is commanded otherwise; with temp 65.0 and tolerance 2.0 a reading
\* of 67.1 turns it off, 62.9 turns it on, and 63.0, 64.0, 66.0 and 67.0
\* (the boundaries included) command nothing. For a tolerance >= 0 the two
\* conditions never both hold in a pass.
C12_HeatBand ==
    (MaintainBody /\ MaintainType(currentTask) = "heat") =>
        /\ ("heaterOff" \in Issued) <=> AboveBand
        /\ ("heaterOn" \in Issued) <=> BelowBand
        /\ Issued \subseteq {"heaterOff", "heaterOn"}
        /\ cooler = pre.cooler
        /\ currentTask.parameters.tolerance >= 0 =>
               /\ ~(AboveBand /\ BelowBand)
               /\ Len(cmds) <= 1
               /\ heater = IF AboveBand THEN "off"
                           ELSE IF BelowBand THEN "on" ELSE pre.heater
        /\ (currentTask.parameters.temp = 650
            /\ currentTask.parameters.tolerance = 20) =>
               /\ temp = 671 => cmds = <<"heaterOff">>
               /\ temp = 629 => cmds = <<"heaterOn">>
               /\ temp \in {630, 640, 660, 670} => cmds = <<>>

\* C12 witness: with temp 65.0 and tolerance 2.0 a pass that read 67.1 has
\* turned off a heater that was on.
C12_Witness ==
    /\ MaintainBody /\ MaintainType(currentTask) = "heat"
    /\ currentTask.parameters.temp = 650
    /\ currentTask.parameters.tolerance = 20
    /\ temp = 671
    /\ pre.heater = "on" /\ heater = "off"
    /\ cmds = <<"heaterOff">>

\* The routine that runs is heat, called with a target temperature.
HeatRuns ==
    currentTask.name = "heat" /\ "temp" \in currentTask.parameters.has

\* The last operation was a tick of the running routine.
RoutineTicked ==
    /\ call = Called("worker", "tick")
    /\ pre.taskState = "running"

\* The simulated sensor of the scenario: 60.0 degrees at the call, one
\* degree more after every sleep, against heat(65).
HeatScenario ==
    [target |-> 650, ticks |-> (650 - 600) \div Ramp.rise]

\* C13: heat(temp) turns the heater on, sleeps one tick for every reading
\* below temp, and at the first reading >= temp turns the heater off and
\* returns. Against a sensor that rises one degree per tick from 60, heat(65)
\* returns after exactly 5 ticks with the heater off; when the first reading
\* is already >= temp it returns after 0 ticks with the heater off.
C13_HeatUntilTarget ==
    /\ (HeatRuns /\ call = Called("worker", "begin")) =>
           /\ taskState = "running" /\ elapsed = 0
           /\ cmds = <<"heaterOn">> /\ heater = "on"
    /\ (HeatRuns /\ RoutineTicked
        /\ pre.temp < currentTask.parameters.temp) =>
           /\ taskState = "running"
           /\ elapsed = Min(pre.elapsed + 1, MaxTicks)
           /\ cmds = <<>> /\ heater = pre.heater
    /\ (HeatRuns /\ RoutineTicked
        /\ pre.temp >= currentTask.parameters.temp) =>
           /\ taskState = "complete"
           /\ elapsed = pre.elapsed /\ temp = pre.temp
           /\ cmds = <<"heaterOff">> /\ heater = "off"
    /\ (HeatRuns /\ taskState = "complete") => heater = "off"
    /\ (HeatRuns /\ taskState = "complete" /\ sensor = "ramp"
        /\ currentTask.parameters.temp = HeatScenario.target) =>
           \/ elapsed = 0 /\ temp >= HeatScenario.target
           \/ elapsed = HeatScenario.ticks /\ temp = HeatScenario.target

\* C13 witness: heat(65) against the rising sensor has returned after five
\* ticks, at 65.0 degrees, with the heater off.
C13_Witness ==
    /\ HeatRuns /\ RoutineReturned
    /\ sensor = "ramp"
    /\ currentTask.parameters.temp = 650
    /\ temp = 650 /\ elapsed = 5
    /\ cmds = <<"heaterOff">> /\ heater = "off"

----------------------------------------------------------------------------
(* Properties of step execution *)

\* The last operation executed step i of the plan, a step the plan format
\* allows to be executed.
Ran(i) == i \in StepIds /\ Executed(i) /\ Executable(i)

\* C14 (as claimed): executing a step that has at least one option never
\* dispatches a routine, also when the step names a baseTask other than
\* humanTask: afterwards status is user_input and the task runner has
\* received no new task.
C14_OptionsBeforeDispatch ==
    \A i \in StepIds :
        (Ran(i) /\ OptionTexts(PyIndex(plan, i)) # <<>>) =>
            /\ status = "user_input"
            /\ NothingDispatched

\* What the code does in the case of C14: the options are shown, and the
\* routine of the step is dispatched all the same when none is outstanding.
C14_OptionsAndDispatch ==
    \A i \in StepIds :
        (Ran(i) /\ OptionTexts(PyIndex(plan, i)) # <<>>
         /\ NeedsDispatch(PyIndex(plan, i)) /\ ~Outstanding(pre)) =>
            /\ options = OptionTexts(PyIndex(plan, i))
            /\ DispatchedFor(PyIndex(plan, i))
            /\ status = IF IsDone(PyIndex(plan, i)) THEN "complete"
                        ELSE "running"

\* The last operation executed step i, a done step of the plan.
RanDone(i) == Ran(i) /\ IsDone(PyIndex(plan, i))

\* Executing step i needed a dispatch while a routine was outstanding.
Refused(i) == NeedsDispatch(PyIndex(plan, i)) /\ Outstanding(pre)

\* C15 (as claimed, stated for the steps that carry the parameters of their
\* routine): executing a step whose done flag is set makes status
\* complete within that same call, by start(), by the poll or by
\* selectOption(), also when the step has just dispatched a routine that is
\* still outstanding.
C15_DoneCompletes ==
    \A i \in StepIds : RanDone(i) => status = "complete"

\* C15 (amended): executing a done step makes status complete within that
\* same call, with the step's routine dispatched and outstanding if it names
\* one, whenever runStep reaches the done flag. It does not reach it in two
\* cases: the dispatch is refused because a routine is outstanding (status
\* error, nothing dispatched), or the step names a routine and has no
\* parameters (KeyError at the dispatch, nothing dispatched, status as it
\* was, or user_input if the step has options).
C15_DoneCompletesIfReached ==
    \A i \in StepIds :
        (Executed(i) /\ IsDone(PyIndex(plan, i))) =>
            LET s == PyIndex(plan, i)
            IN  IF LacksParameters(s)
                THEN /\ ret.raised = "KeyError"
                     /\ NothingDispatched
                     /\ status = IF OptionTexts(s) # <<>> THEN "user_input"
                                 ELSE pre.status
                ELSE /\ ret.raised = "none"
                     /\ IF Refused(i)
                        THEN status = "error" /\ NothingDispatched
                        ELSE /\ status = "complete"
                             /\ NeedsDispatch(s) =>
                                    /\ DispatchedFor(s)
                                    /\ Outstanding(Machine)

\* C15 witness: the poll reached a done step that names a routine; the
\* routine was dispatched, is outstanding, and status is complete.
C15_Witness ==
    /\ call.op = "updateStatus"
    /\ RanDone(step)
    /\ NeedsDispatch(PyIndex(plan, step))
    /\ Outstanding(Machine)
    /\ status = "complete"

\* C16 (as claimed): after every execution of a step, by start(), by the
\* poll or by selectOption(), also one that ends in a refused dispatch, time
\* is the step's parameters.time if it has one and empty otherwise; no time
\* of an earlier step stays visible.
C16_TimeOfStep ==
    \A i \in StepIds : Ran(i) => time = StepTime(PyIndex(plan, i))

\* What the code does in the case of C16: time follows the step unless the
\* dispatch was refused, and then it keeps the value it had.
C16_TimeUnlessRefused ==
    \A i \in StepIds :
        Ran(i) => time = IF Refused(i) THEN pre.time
                         ELSE StepTime(PyIndex(plan, i))

\* The current step exists and its done flag is set.
AtDoneStep == ValidIndex(plan, step) /\ IsDone(PyIndex(plan, step))

\* The last operation was a poll that found the routine finished on a done
\* step: the branch of updateStatus that calls stop().
DoneBranchTaken ==
    /\ call.op = "updateStatus"
    /\ pre.status = "running" /\ ~Outstanding(pre)
    /\ PreStepExists /\ IsDone(PreStep)

\* Every step of the plan that names a routine carries its parameters.
ParametersGiven ==
    \A i \in 1..Len(plan) :
        NeedsDispatch(plan[i]) => "parameters" \in plan[i].has

\* C17 (as claimed): in every reachable state, status running implies that
\* the current step's done flag is not set; hence the branch of the poll
\* that handles a finished routine on a done step is never taken.
C17_RunningNotDone ==
    /\ status = "running" => ~AtDoneStep
    /\ ~DoneBranchTaken

\* What the code guarantees in the case of C17: the same on a plan in which
\* every step that names a routine carries its parameters, where runStep
\* does not raise after the poll has moved the step pointer.
C17_RunningNotDoneWithParameters ==
    ParametersGiven =>
        /\ status = "running" => ~AtDoneStep
        /\ ~DoneBranchTaken

\* C18 (as claimed, stated for the plans whose targets all exist): in every
\* reachable state, status user_input implies that options is not empty and
\* is, in order, the option texts of the current step: a run never waits
\* for the user with nothing to choose.
C18_UserInputHasOptions ==
    (TargetsExist /\ status = "user_input") =>
        /\ options # <<>>
        /\ ValidIndex(plan, step)
        /\ options = OptionTexts(PyIndex(plan, step))

\* What the code guarantees in the case of C18: while the current step
\* exists, options are its option texts, which may be none.
C18_OptionsOfStep ==
    (status = "user_input" /\ ValidIndex(plan, step)) =>
        options = OptionTexts(PyIndex(plan, step))

----------------------------------------------------------------------------
(* Properties of the recipe together with its routines *)

\* C19 (as claimed): after stop() has returned and until the next start(),
\* the heater and the cooler stay commanded off in every interleaving, also
\* when a routine dispatched before the stop (heat, cool or maintain) is
\* still in its loop.
C19_OffAfterStop ==
    stopped => (heater = "off" /\ cooler = "off")

\* What the code guarantees in the case of C19: after stop() the heater and
\* the cooler are off whenever no routine is outstanding.
C19_OffUnlessOutstanding ==
    (stopped /\ ~Outstanding(Machine)) => (heater = "off" /\ cooler = "off")

\* Every routine that is dispatched eventually completes.
RoutinesComplete ==
    (taskState \in {"queued", "running"}) ~> (taskState = "complete")

\* No caller executes a step directly: runStep() is called by start(), the
\* poll and selectOption() only.
NoDirectRunStep == [](call.op # "runStep")

\* The last operation handed a routine to the task runner.
Dispatched ==
    /\ call.op \in {"start", "runStep", "updateStatus", "selectOption"}
    /\ taskState = "queued"
    /\ pre.taskState # "queued"

\* The steps are executed in the order of the next-chain, and a routine is
\* dispatched only after the one before it has completed.
ChainOrder ==
    /\ call.op = "start" => step = 0
    /\ (call.op = "updateStatus" /\ step # pre.step) =>
           /\ PreStepExists /\ "next" \in PreStep.has
           /\ step = PreStep.next
           /\ pre.taskState = "complete"
    /\ Dispatched => pre.taskState \in {"none", "complete"}
    /\ (Dispatched /\ call.op = "updateStatus") => pre.taskState = "complete"

\* C20 (as claimed, stated for the plans whose routine steps carry their
\* parameters): on a plan without options whose steps that are not done
\* name a routine and a next, and whose next-chain reaches a done step, if
\* every dispatched routine eventually completes, the poll is called again
\* and again and stop() is not called, then after start() the status
\* eventually becomes complete, the steps being executed in chain order and
\* each routine dispatched only after the one before it completed. Stated
\* in its weakest reading, for the callers that leave runStep() to the
\* recipe: a run in which start() is called has status complete at some
\* time.
C20_StartLeadsToComplete ==
    (ParametersGiven /\ RoutinesComplete /\ NoDirectRunStep) =>
        /\ <>(starts > 0) => <>(status = "complete")
        /\ []ChainOrder

\* C20 (amended): the same when start() is called once only and runStep()
\* is not called directly; status then becomes complete after that call.
C20_SingleStartLeadsToComplete ==
    (ParametersGiven /\ RoutinesComplete /\ NoDirectRunStep
     /\ [](starts <= 1)) =>
        /\ (starts > 0) ~> (status = "complete")
        /\ []ChainOrder

\* C20 witness: after a single start() the poll has taken the three-step
\* chain to its done step, reached from the maintain step whose routine had
\* completed, and status is complete.
C20_Witness ==
    /\ plan = PlanChain
    /\ starts = 1
    /\ call.op = "updateStatus"
    /\ pre.step = 1 /\ pre.taskState = "complete"
    /\ step = 2 /\ status = "complete"

====
